---- MODULE Spec2Model ----
(***************************************************************************)
(* Canvas slideshow (src/Slideshow.ts): the playback scheduler, the        *)
(* control state (ControlElement / ControlsManager) and the drawing        *)
(* strategies (drawSlide, fadeTransition, horizontalTransition,            *)
(* verticalTransition), as one state machine.                              *)
(*                                                                         *)
(* Time is abstracted: a live timer may fire at any moment, interleaved    *)
(* with the user's events.  Callbacks run to completion (one JavaScript    *)
(* thread), so every handler is one atomic action.                         *)
(*                                                                         *)
(* Opacity (context.globalAlpha) is kept in thousandths: 1.0 is 1000, the  *)
(* fade step 0.008 is 8, the fade-out threshold 0.1 is 100.                *)
(***************************************************************************)
EXTENDS Integers, FiniteSets, Sequences, TLC

(***************************************************************************)
(* Bounds of the model.                                                    *)
(***************************************************************************)
\* largest number of entries of the image manifest
MaxImages == 3
\* largest number of images whose load may have failed
MaxBroken == 1
\* fires of one slide timer beyond which the model stops following it (a slide
\* whose drawing keeps failing fires for ever)
MaxTicks == 12
\* canvas widths the environment reports are 16, 32, .., 16 * MaxWidthUnits
MaxWidthUnits == 1
\* largest number of view-change redraw timeouts pending at once
MaxRedraws == 1
\* longest run of consecutive "next" presses the history variable counts
MaxRun == 3
\* animation ticks of a fade between two moments at which another event can
\* interleave: the fade timer fires up to FadeBurst times in a row
FadeBurst == 57

(***************************************************************************)
(* Program constants.                                                      *)
(***************************************************************************)
defaultImageWidth == 640
defaultImageHeight == 480
\* Slideshow.fadeStep, 0.008, in thousandths
fadeStep == 8
\* Slideshow.loadTimeout, ms
loadTimeout == 90000
\* period of the readiness poll, ms
pollPeriod == 500
\* full opacity, 1.0, in thousandths
AlphaOne == 1000
\* the fade-out threshold, 0.1, in thousandths
AlphaFloor == 100
\* "increment" of the slide transitions, px per redraw
increment == 3
\* imageCounter before the first draw
BeforeFirst == -1

Buttons == {"play", "direction", "random", "next", "previous", "fullScreen"}
Effects == {"None", "fade", "slide-across", "slide-vertically"}

\* widths getComputedStyle / window.innerWidth may report
Widths == {16 * k : k \in 1..MaxWidthUnits}
\* Math.pow(aspectRatio, -1) * width, aspectRatio = 16/9 (exact on multiples of 16)
AspectHeight(w) == (9 * w) \div 16
\* window.innerWidth, window.innerHeight of a full-screen canvas (a 16:9 screen)
Viewports == {<<w, AspectHeight(w)>> : w \in Widths}

VARIABLES
    phase,              \* "loading", "starting" (600 ms start-up timeout pending), "started", "failed"
    timeoutCounter,     \* argument of the pending handleImageLoad()
    numImages,          \* images.length once the manifest has been read
    imagesReady,        \* every image reports complete
    imageCounter,       \* Slideshow.imageCounter
    interval,           \* Slideshow.interval: the held timer handle
    timers,             \* the live setInterval timers, with their closures
    redraws,            \* pending view-change redraw timeouts (setTimeout 500 ms)
    ctl,                \* the ControlElements: isEnabled and state of each
    drawingFunction,    \* which strategy Slideshow.drawingFunction calls
    globalAlpha,        \* context.globalAlpha, thousandths
    globalImageWidth,
    globalImageHeight,
    alerts,             \* number of failure notices shown
    last,               \* history: the last handler that ran and what it dispatched
    run,                \* history: the current run of consecutive next presses
    call,               \* history: the last ControlsManager call, its result, the controls before it
    broken,             \* the indices of the images whose load failed: drawImage() throws on them
    frame               \* history: what the handler that just ran has drawn

vars == <<phase, timeoutCounter, numImages, imagesReady, imageCounter, interval,
          timers, redraws, ctl, drawingFunction, globalAlpha, globalImageWidth,
          globalImageHeight, alerts, last, run, call, broken, frame>>

(***************************************************************************)
(* ControlElement                                                          *)
(***************************************************************************)
\* new ControlElement(elem, true, callback, event): enabled, state false
ControlElement == [isEnabled |-> TRUE, state |-> FALSE]

\* toggle() without its test on isEnabled
toggleAlways(c, b) == [c EXCEPT ![b].state = ~c[b].state]

\* ControlElement.toggle(): the controls after the call
toggle(c, b) ==
    IF c[b].isEnabled THEN [c EXCEPT ![b].state = ~c[b].state] ELSE c

\* ControlElement.toggle(): the value returned
toggleResult(c, b) ==
    IF c[b].isEnabled THEN ~c[b].state ELSE FALSE

\* toggleEnabled() without the toggle() that makes a disabled control inactive
toggleEnabledKeepsState(c, b) == [c EXCEPT ![b].isEnabled = ~c[b].isEnabled]

\* ControlElement.toggleEnabled()
toggleEnabled(c, b) ==
    IF c[b].isEnabled
    THEN [(IF c[b].state THEN toggle(c, b) ELSE c) EXCEPT ![b].isEnabled = FALSE]
    ELSE [c EXCEPT ![b].isEnabled = TRUE]

(***************************************************************************)
(* ControlsManager                                                         *)
(***************************************************************************)
isPlaying(c) == c["play"].state
isRandom(c) == c["random"].state
isReversed(c) == c["direction"].state
isFullScreen(c) == c["fullScreen"].state

\* togglePlay() enabling random and direction when playing, never disabling them
togglePlayEnableOnly(c) ==
    LET c1 == toggle(c, "play")
        c2 == IF isPlaying(c1) /\ ~c1["random"].isEnabled
              THEN toggleEnabled(c1, "random") ELSE c1
    IN  IF isPlaying(c2) /\ ~c2["direction"].isEnabled
        THEN toggleEnabled(c2, "direction") ELSE c2

togglePlay(c) ==
    LET c1 == toggle(c, "play")
        playing == isPlaying(c1)
        randomEnabled == c1["random"].isEnabled
        directionEnabled == c1["direction"].isEnabled
        c2 == IF playing
              THEN IF ~randomEnabled THEN toggleEnabled(c1, "random") ELSE c1
              ELSE IF randomEnabled THEN toggleEnabled(c1, "random") ELSE c1
    IN  IF playing
        THEN IF ~directionEnabled THEN toggleEnabled(c2, "direction") ELSE c2
        ELSE IF directionEnabled THEN toggleEnabled(c2, "direction") ELSE c2

\* the value togglePlay() returns: isPlaying() after playButton.toggle()
togglePlayResult(c) == isPlaying(toggle(c, "play"))

toggleDirection(c) == toggle(c, "direction")

\* the value toggleDirection() returns: isReversed() after the toggle
toggleDirectionResult(c) == isReversed(toggleDirection(c))

toggleRandom(c) ==
    toggleEnabled(toggleEnabled(toggleEnabled(toggle(c, "random"),
        "previous"), "next"), "direction")

\* the value toggleRandom() returns: what randomButton.toggle() returned
toggleRandomResult(c) == toggleResult(c, "random")

\* toggleFullScreen() calling toggleEnabled() instead of toggle()
toggleFullScreenEnabled(c) == toggleEnabled(c, "fullScreen")

toggleFullScreen(c) == toggle(c, "fullScreen")

\* toggleFullScreen() has no return statement: its callers get undefined
toggleFullScreenResult(c) == "undefined"

\* a boolean as the JavaScript value a call returns
JsBool(b) == IF b THEN "true" ELSE "false"

(***************************************************************************)
(* Timers: setInterval / clearInterval                                     *)
(***************************************************************************)
TimerKinds == {"autoplay", "random", "fadeOut", "fadeIn", "horizontal", "vertical"}

\* the closure of a timer callback; fields a kind does not capture stay at their
\* defaults.  The other fields are history of a slide transition: ticks, how often
\* its callback has fired; saves and restores, how many context.save() and
\* context.restore() calls the transition has made; origin, where along the slide
\* axis the context's transform has moved to since the transition was dispatched.
Callback(kind, nextCounter, forward, extent, randomState) ==
    [kind |-> kind, nextCounter |-> nextCounter, offset |-> 0, forward |-> forward,
     extent |-> extent, randomState |-> randomState, ticks |-> 0,
     saves |-> 0, restores |-> 0, origin |-> 0]

LiveIds(ts) == {t.id : t \in ts}

\* the handle setInterval returns: one that names no live timer.  (A browser never
\* reuses a handle; here a dead one is reused, which no handler can observe: every
\* result of setInterval is stored in this.interval at once, replacing the stale one.)
NewId(ts) ==
    CHOOSE i \in 1..(Cardinality(ts) + 1) :
        /\ i \notin LiveIds(ts)
        /\ \A j \in 1..(i - 1) : j \in LiveIds(ts)

clearInterval(ts, h) == {t \in ts : t.id # h}

\* this.interval = setInterval(cb, ..), on the machine state m
setInterval(m, cb) ==
    LET id == NewId(m.timers)
    IN  [m EXCEPT !.interval = id,
                  !.timers = m.timers \cup {[id |-> id] @@ cb}]

(***************************************************************************)
(* frame: what the handler that just ran has drawn.  kind is "horizontal"  *)
(* or "vertical" after a redraw of a slide, else "none".  logged: a        *)
(* drawSlide() of the handler caught a drawing fault and logged it.        *)
(* raised: an exception left the handler.  For a redraw of a slide,        *)
(* target, forward and extent are those of its closure, n is the number    *)
(* of this fire of its timer, outgoing and incoming hold the               *)
(* origin along the slide axis at which each image was drawn, in the       *)
(* coordinates in force when the callback began (empty when the image was  *)
(* not drawn), done says that the stopping condition was met, origin is    *)
(* where the transform stood when the callback began, relative to the      *)
(* dispatch of the transition, saves and restores count the save() and     *)
(* restore() calls of the transition up to the end of this fire.           *)
(***************************************************************************)
NoFrame ==
    [kind |-> "none", logged |-> FALSE, raised |-> FALSE, target |-> 0,
     forward |-> FALSE, extent |-> 0, n |-> 0, outgoing |-> <<>>, incoming |-> <<>>,
     done |-> FALSE, saves |-> 0, restores |-> 0, origin |-> 0]

(***************************************************************************)
(* The mutable fields of the Slideshow object and of its canvas context,   *)
(* as one record, so that the methods compose as the code calls them.      *)
(***************************************************************************)
St ==
    [imageCounter |-> imageCounter, interval |-> interval, timers |-> timers,
     redraws |-> redraws, ctl |-> ctl, drawingFunction |-> drawingFunction,
     globalAlpha |-> globalAlpha, globalImageWidth |-> globalImageWidth,
     globalImageHeight |-> globalImageHeight, frame |-> NoFrame]

Apply(m) ==
    /\ imageCounter' = m.imageCounter
    /\ interval' = m.interval
    /\ timers' = m.timers
    /\ redraws' = m.redraws
    /\ ctl' = m.ctl
    /\ drawingFunction' = m.drawingFunction
    /\ globalAlpha' = m.globalAlpha
    /\ globalImageWidth' = m.globalImageWidth
    /\ globalImageHeight' = m.globalImageHeight
    /\ frame' = m.frame

\* clearInterval(this.interval)
clearHeld(m) == [m EXCEPT !.timers = clearInterval(m.timers, m.interval)]

\* context.globalAlpha = v: the canvas ignores a value outside [0, 1]
setGlobalAlpha(m, v) ==
    IF 0 <= v /\ v <= AlphaOne THEN [m EXCEPT !.globalAlpha = v] ELSE m

(***************************************************************************)
(* Playback scheduler                                                      *)
(***************************************************************************)
\* resumeSlideShow() without its leading clearInterval(this.interval)
resumeSlideShowNoClear(m) ==
    setInterval(m, Callback("autoplay", 0, FALSE, 0, FALSE))

resumeSlideShow(m) ==
    setInterval(clearHeld(m), Callback("autoplay", 0, FALSE, 0, FALSE))

\* drawNextSlide() testing nextCounter > length instead of >=
nextCounterForwardLate(i, len) == IF i + 1 > len THEN 0 ELSE i + 1

\* nextCounter of drawNextSlide()
nextCounterForward(i, len) == IF i + 1 >= len THEN 0 ELSE i + 1

\* nextCounter of drawPreviousSlide()
nextCounterBackward(i, len) == IF i - 1 < 0 THEN len - 1 ELSE i - 1

\* the values Math.round(images.length * Math.random()) would take
RandomCountersRounded(len) == 0..len

\* the values Math.ceil(images.length * Math.random()) would take
RandomCountersCeiling(len) == 1..len

\* the values Math.floor(images.length * Math.random()) can take
RandomCounters(len) == 0..(len - 1)

(***************************************************************************)
(* Drawing strategies                                                      *)
(***************************************************************************)
\* context.drawImage(this.images[i], ..) throws: images[i] is undefined, or it is
\* an image whose load failed
drawImageThrows(i) == i \notin 0..(numImages - 1) \/ i \in broken

\* drawSlide() assigning imageCounter inside the try, after drawImage()
drawSlideAssignsLate(m, slide) ==
    [m EXCEPT !.imageCounter = IF drawImageThrows(slide) THEN @ ELSE slide,
              !.frame = [m.frame EXCEPT !.logged = @ \/ drawImageThrows(slide)]]

\* drawSlide(): imageCounter = slide, then the drawing inside try/catch: an
\* exception of drawImage() is caught and logged
drawSlide(m, slide) ==
    [m EXCEPT !.imageCounter = slide,
              !.frame = [m.frame EXCEPT !.logged = @ \/ drawImageThrows(slide)]]

fadeTransition(m, nextCounter) ==
    setInterval(clearHeld(m), Callback("fadeOut", nextCounter, FALSE, 0, FALSE))

\* horizontalTransition() taking the direction of travel from the direction button
horizontalTransitionByFlag(m, nextCounter) ==
    setInterval(clearHeld(m),
        [Callback("horizontal", nextCounter, ~isReversed(m.ctl),
                  m.globalImageWidth, FALSE) EXCEPT !.saves = 1])

horizontalTransition(m, nextCounter) ==
    setInterval(clearHeld(m),
        [Callback("horizontal", nextCounter, m.imageCounter < nextCounter,
                  m.globalImageWidth, FALSE) EXCEPT !.saves = 1])

verticalTransition(m, nextCounter) ==
    setInterval(clearHeld(m),
        [Callback("vertical", nextCounter, m.imageCounter < nextCounter,
                  m.globalImageHeight, FALSE) EXCEPT !.saves = 1])

\* this.drawingFunction(nextCounter), as set by start-up and by effectCallback()
callDrawingFunction(m, nextCounter) ==
    CASE m.drawingFunction = "None" -> drawSlide(m, nextCounter)
      [] m.drawingFunction = "fade" -> fadeTransition(m, nextCounter)
      [] m.drawingFunction = "slide-across" -> horizontalTransition(m, nextCounter)
      [] m.drawingFunction = "slide-vertically" -> verticalTransition(m, nextCounter)

\* drawNextSlide() calling drawSlide() instead of this.drawingFunction
drawNextSlidePlain(m) ==
    drawSlide(m, nextCounterForward(m.imageCounter, numImages))

drawNextSlide(m) ==
    callDrawingFunction(m, nextCounterForward(m.imageCounter, numImages))

drawPreviousSlide(m) ==
    callDrawingFunction(m, nextCounterBackward(m.imageCounter, numImages))

drawRandomSlide(m, r) == callDrawingFunction(m, r)

(***************************************************************************)
(* Timer callbacks, on the machine state m, for the live timer t           *)
(***************************************************************************)
\* the autoplay callback with the test on isReversed() inverted
autoplayCallbackInverted(m, r) ==
    IF ~isRandom(m.ctl)
    THEN IF isReversed(m.ctl) THEN drawNextSlide(m) ELSE drawPreviousSlide(m)
    ELSE drawRandomSlide(m, r)

\* the callback resumeSlideShow() installs
autoplayCallback(m, r) ==
    IF ~isRandom(m.ctl)
    THEN IF ~isReversed(m.ctl) THEN drawNextSlide(m) ELSE drawPreviousSlide(m)
    ELSE drawRandomSlide(m, r)

\* the callback of randomCallback() advancing sequentially at once when the
\* captured toggle result is false
randomTimerCallbackAdvances(m, t, r) ==
    IF t.randomState THEN drawRandomSlide(m, r) ELSE autoplayCallback(m, r)

\* the callback randomCallback() installs; randomState is the captured toggle result
randomTimerCallback(m, t, r) ==
    IF t.randomState THEN drawRandomSlide(m, r) ELSE resumeSlideShow(m)

\* the outer callback fading out until the opacity is 0 instead of the floor 0.1
fadeOutCallbackNoFloor(m, t) ==
    IF m.globalAlpha > 0
    THEN LET m1 == drawSlide(m, m.imageCounter)
         IN  setGlobalAlpha(m1, m1.globalAlpha - fadeStep)
    ELSE setInterval([clearHeld(m) EXCEPT !.imageCounter = t.nextCounter],
                     Callback("fadeIn", t.nextCounter, FALSE, 0, FALSE))

\* the outer callback switching to the fade-in without imageCounter = nextCounter
fadeOutCallbackKeepsIndex(m, t) ==
    IF m.globalAlpha >= AlphaFloor
    THEN LET m1 == drawSlide(m, m.imageCounter)
         IN  setGlobalAlpha(m1, m1.globalAlpha - fadeStep)
    ELSE setInterval(clearHeld(m), Callback("fadeIn", t.nextCounter, FALSE, 0, FALSE))

\* the outer callback of fadeTransition()
fadeOutCallback(m, t) ==
    IF m.globalAlpha >= AlphaFloor
    THEN LET m1 == drawSlide(m, m.imageCounter)
         IN  setGlobalAlpha(m1, m1.globalAlpha - fadeStep)
    ELSE setInterval([clearHeld(m) EXCEPT !.imageCounter = t.nextCounter],
                     Callback("fadeIn", t.nextCounter, FALSE, 0, FALSE))

\* the inner callback resuming whatever controls.isPlaying() says
fadeInCallbackAlwaysResumes(m, t) ==
    IF m.globalAlpha < AlphaOne
    THEN LET m1 == drawSlide(m, m.imageCounter)
         IN  setGlobalAlpha(m1, m1.globalAlpha + fadeStep)
    ELSE resumeSlideShow(clearHeld(m))

\* the inner callback of fadeTransition()
fadeInCallback(m, t) ==
    IF m.globalAlpha < AlphaOne
    THEN LET m1 == drawSlide(m, m.imageCounter)
         IN  setGlobalAlpha(m1, m1.globalAlpha + fadeStep)
    ELSE LET m1 == clearHeld(m)
         IN  IF isPlaying(m1.ctl) THEN resumeSlideShow(m1) ELSE m1

\* the redraw stopping when offset > limit instead of offset >= limit
slideCallbackStopsLate(m, t, outgoing, incoming) ==
    LET t0 == [t EXCEPT !.ticks = t.ticks + 1, !.saves = t.saves + 1]
        t1 == [t0 EXCEPT !.offset = t.offset + increment,
                         !.restores = t.restores + 1]
        f == [NoFrame EXCEPT !.kind = t.kind, !.target = t.nextCounter,
                             !.forward = t.forward, !.extent = t.extent,
                             !.n = t0.ticks, !.origin = t.origin,
                             !.saves = t0.saves, !.restores = t0.restores]
        m1 == [m EXCEPT !.timers = (m.timers \ {t}) \cup {t1}]
        limit == t.extent + increment
    IN  IF drawImageThrows(m.imageCounter)
        THEN [m EXCEPT !.timers = (m.timers \ {t})
                                     \cup {[t0 EXCEPT !.origin = t.origin + outgoing]},
                       !.frame = [f EXCEPT !.raised = TRUE]]
        ELSE IF drawImageThrows(t.nextCounter)
        THEN [m EXCEPT !.timers = (m.timers \ {t})
                                     \cup {[t0 EXCEPT !.origin = t.origin + incoming]},
                       !.frame = [f EXCEPT !.raised = TRUE, !.outgoing = <<outgoing>>]]
        ELSE IF t1.offset > limit
        THEN LET m2 == [clearHeld(m1) EXCEPT
                            !.imageCounter = t.nextCounter,
                            !.frame = [f EXCEPT !.outgoing = <<outgoing>>,
                                                !.incoming = <<incoming>>,
                                                !.restores = t1.restores,
                                                !.done = TRUE]]
             IN  IF isPlaying(m2.ctl) THEN resumeSlideShow(m2) ELSE m2
        ELSE [m1 EXCEPT !.frame = [f EXCEPT !.outgoing = <<outgoing>>,
                                            !.incoming = <<incoming>>,
                                            !.restores = t1.restores]]

\* one redraw of a slide transition, the two images drawn at the origins outgoing
\* and incoming: drawImage() of the image at imageCounter, drawImage() of the
\* target, offset += increment, then the stopping condition.  Neither drawImage()
\* is inside a try: when one throws, the callback ends there, after its save()
\* and its translate() calls and before its restore().
slideCallback(m, t, outgoing, incoming) ==
    LET t0 == [t EXCEPT !.ticks = t.ticks + 1, !.saves = t.saves + 1]
        t1 == [t0 EXCEPT !.offset = t.offset + increment,
                         !.restores = t.restores + 1]
        f == [NoFrame EXCEPT !.kind = t.kind, !.target = t.nextCounter,
                             !.forward = t.forward, !.extent = t.extent,
                             !.n = t0.ticks, !.origin = t.origin,
                             !.saves = t0.saves, !.restores = t0.restores]
        m1 == [m EXCEPT !.timers = (m.timers \ {t}) \cup {t1}]
        limit == t.extent + increment
    IN  IF drawImageThrows(m.imageCounter)
        THEN [m EXCEPT !.timers = (m.timers \ {t})
                                     \cup {[t0 EXCEPT !.origin = t.origin + outgoing]},
                       !.frame = [f EXCEPT !.raised = TRUE]]
        ELSE IF drawImageThrows(t.nextCounter)
        THEN [m EXCEPT !.timers = (m.timers \ {t})
                                     \cup {[t0 EXCEPT !.origin = t.origin + incoming]},
                       !.frame = [f EXCEPT !.raised = TRUE, !.outgoing = <<outgoing>>]]
        ELSE IF t1.offset >= limit
        THEN LET m2 == [clearHeld(m1) EXCEPT
                            !.imageCounter = t.nextCounter,
                            !.frame = [f EXCEPT !.outgoing = <<outgoing>>,
                                                !.incoming = <<incoming>>,
                                                !.restores = t1.restores,
                                                !.done = TRUE]]
             IN  IF isPlaying(m2.ctl) THEN resumeSlideShow(m2) ELSE m2
        ELSE [m1 EXCEPT !.frame = [f EXCEPT !.outgoing = <<outgoing>>,
                                            !.incoming = <<incoming>>,
                                            !.restores = t1.restores]]

\* up to n further fires of the fade-out callback, while it keeps redrawing
RECURSIVE fadeOutBurst(_, _, _)
fadeOutBurst(m, t, n) ==
    IF n = 0 \/ ~(m.globalAlpha >= AlphaFloor)
    THEN m
    ELSE fadeOutBurst(fadeOutCallback(m, t), t, n - 1)

\* up to n further fires of the fade-in callback, while it keeps redrawing
RECURSIVE fadeInBurst(_, _, _)
fadeInBurst(m, t, n) ==
    IF n = 0 \/ ~(m.globalAlpha < AlphaOne)
    THEN m
    ELSE fadeInBurst(fadeInCallback(m, t), t, n - 1)

\* horizontalTransition(): translate(-offset, 0) when forward, translate(offset, 0)
\* otherwise, then the outgoing image at the local origin
horizontalOutgoing(t) == IF t.forward THEN (-1) * t.offset ELSE t.offset

\* then translate(imgWidth, 0) when forward, translate(-imgWidth, 0) otherwise, on
\* top of the first translation, and the incoming image at the local origin
horizontalIncoming(t) ==
    horizontalOutgoing(t) + (IF t.forward THEN t.extent ELSE (-1) * t.extent)

horizontalCallback(m, t) ==
    slideCallback(m, t, horizontalOutgoing(t), horizontalIncoming(t))

\* verticalTransition() translating with the signs of horizontalTransition()
verticalOutgoingUpwards(t) == IF t.forward THEN (-1) * t.offset ELSE t.offset

\* verticalTransition(): translate(0, offset) when forward, translate(0, -offset)
\* otherwise
verticalOutgoing(t) == IF t.forward THEN t.offset ELSE (-1) * t.offset

\* then translate(0, -imgHeight) when forward, translate(0, imgHeight) otherwise
verticalIncoming(t) ==
    verticalOutgoing(t) + (IF t.forward THEN (-1) * t.extent ELSE t.extent)

verticalCallback(m, t) ==
    slideCallback(m, t, verticalOutgoing(t), verticalIncoming(t))

(***************************************************************************)
(* View changes                                                            *)
(***************************************************************************)
\* resizeCanvas(isFullscreen): w, h are what the window reports.  Assigning
\* canvas.width resets the context, and with it globalAlpha.
resizeCanvas(m, isFullscreen, w, h) ==
    IF isFullscreen
    THEN [m EXCEPT !.globalImageWidth = w, !.globalImageHeight = h]
    ELSE [m EXCEPT !.globalImageWidth = w, !.globalImageHeight = AspectHeight(w),
                   !.globalAlpha = AlphaOne]

\* viewChange() without its closing resumeSlideShow()
viewChangeNoResume(m, w, h) ==
    LET m1 == resizeCanvas(m, isFullScreen(m.ctl), w, h)
    IN  [m1 EXCEPT !.redraws = m1.redraws + 1]

\* the viewChange closure of setupViewChangeHandling()
viewChange(m, w, h) ==
    LET m1 == resizeCanvas(m, isFullScreen(m.ctl), w, h)
        m2 == [m1 EXCEPT !.redraws = m1.redraws + 1]
    IN  IF isPlaying(m2.ctl) THEN resumeSlideShow(m2) ELSE m2

(***************************************************************************)
(* History variables                                                       *)
(***************************************************************************)
\* call: the ControlsManager method called last, the value it returned, the
\* controls before it, and (pair) the controls before the call preceding it when
\* both were togglePlay()
Called(op, result) ==
    [op |-> op, result |-> result, before |-> ctl,
     pair |-> IF op = "togglePlay" /\ call.op = "togglePlay" THEN <<call.before>> ELSE <<>>]

\* no method has been called yet
NoCall ==
    [op |-> "none", result |-> "undefined",
     before |-> [b \in Buttons |-> ControlElement], pair |-> <<>>]

\* last: the handler that just ran, for the handlers that hand a target to the
\* drawing function ("start", "autoplay", "randomTimer", and the manual advances
\* "forward" / "backward") or complete a transition ("fadeDone", "slideDone"); any
\* other handler leaves "other".  A handler named here that handed over no target
\* has dispatched = FALSE.  from is imageCounter when the handler began,
\* wasRandom whether random was active then.
Dispatched(op) ==
    [op |-> op, dispatched |-> TRUE, from |-> imageCounter, wasRandom |-> isRandom(ctl)]

\* a handler that dispatched nothing
Ran(op) ==
    [op |-> op, dispatched |-> FALSE, from |-> 0, wasRandom |-> FALSE]

\* a next / previous click: it dispatches only when random is inactive
Clicked(op) ==
    IF ~isRandom(ctl) THEN Dispatched(op) ELSE [Ran(op) EXCEPT !.wasRandom = TRUE]

NoRun == [from |-> 0, n |-> 0]

\* one more forward manual advance drawn with the plain draw
ExtendRun ==
    IF drawingFunction = "None"
    THEN IF run.n = 0 \/ run.n >= MaxRun
         THEN [from |-> imageCounter, n |-> 1]
         ELSE [run EXCEPT !.n = run.n + 1]
    ELSE NoRun

(***************************************************************************)
(* Start-up: start() / handleImageLoad()                                   *)
(***************************************************************************)
\* the state after index.ts has run: new Slideshow(..), preload(), start(0)
InitFields ==
    /\ phase = "loading"
    /\ timeoutCounter = 0
    /\ imagesReady = FALSE
    /\ imageCounter = 0
    /\ interval = 0
    /\ timers = {}
    /\ redraws = 0
    /\ ctl = [b \in Buttons |-> ControlElement]
    /\ drawingFunction = "None"
    /\ globalAlpha = AlphaOne
    /\ globalImageWidth = defaultImageWidth
    /\ globalImageHeight = defaultImageHeight
    /\ alerts = 0
    /\ last = Ran("other")
    /\ run = NoRun
    /\ call = NoCall
    /\ frame = NoFrame

\* manifests of the complete machine: one or two images
SmallManifests == {1, 2}

Init == numImages \in SmallManifests /\ broken = {} /\ InitFields

\* manifests of the playback machine (no view changes): up to MaxImages images
PlaybackInit == numImages \in 1..MaxImages /\ broken = {} /\ InitFields

\* the environment: the manifest has arrived and every image is complete
imagesComplete ==
    /\ phase = "loading"
    /\ ~imagesReady
    /\ imagesReady' = TRUE
    /\ UNCHANGED <<phase, timeoutCounter, numImages, imageCounter, interval, timers,
                   redraws, ctl, drawingFunction, globalAlpha, globalImageWidth,
                   globalImageHeight, alerts, last, run, call, broken, frame>>

\* handleImageLoad(): images loaded, the 600 ms start timeout is set
handleImageLoadReady ==
    /\ phase = "loading"
    /\ imagesReady
    /\ phase' = "starting"
    /\ timeoutCounter' = 0      \* no poll is pending any more
    /\ last' = Ran("other")
    /\ UNCHANGED <<numImages, imagesReady, imageCounter, interval,
                   timers, redraws, ctl, drawingFunction, globalAlpha,
                   globalImageWidth, globalImageHeight, alerts, run, call, broken, frame>>

\* handleImageLoad() polling again while timeoutCounter <= loadTimeout
handleImageLoadRetryInclusive ==
    /\ phase = "loading"
    /\ ~imagesReady
    /\ timeoutCounter <= loadTimeout
    /\ timeoutCounter' = timeoutCounter + pollPeriod
    /\ last' = Ran("other")
    /\ UNCHANGED <<phase, numImages, imagesReady, imageCounter, interval, timers,
                   redraws, ctl, drawingFunction, globalAlpha, globalImageWidth,
                   globalImageHeight, alerts, run, call, broken, frame>>

\* handleImageLoad(): not loaded, ceiling not reached: poll again in 500 ms
handleImageLoadRetry ==
    /\ phase = "loading"
    /\ ~imagesReady
    /\ timeoutCounter < loadTimeout
    /\ timeoutCounter' = timeoutCounter + pollPeriod
    /\ last' = Ran("other")
    /\ UNCHANGED <<phase, numImages, imagesReady, imageCounter, interval, timers,
                   redraws, ctl, drawingFunction, globalAlpha, globalImageWidth,
                   globalImageHeight, alerts, run, call, broken, frame>>

\* handleImageLoad(): not loaded and the ceiling is reached: alert, no further poll
handleImageLoadFail ==
    /\ phase = "loading"
    /\ ~imagesReady
    /\ timeoutCounter >= loadTimeout
    /\ phase' = "failed"
    /\ alerts' = alerts + 1
    /\ last' = Ran("other")
    /\ UNCHANGED <<timeoutCounter, numImages, imagesReady, imageCounter, interval,
                   timers, redraws, ctl, drawingFunction, globalAlpha,
                   globalImageWidth, globalImageHeight, run, call, broken, frame>>

\* the 600 ms timeout of handleImageLoad() without its controls.togglePlay()
startSlideshowNoTogglePlay ==
    /\ phase = "starting"
    /\ \E w \in Widths :
         LET m1 == resizeCanvas(St, FALSE, w, 0)
             m2 == [m1 EXCEPT !.drawingFunction = "None", !.imageCounter = BeforeFirst,
                              !.ctl = [b \in Buttons |-> ControlElement]]
             m3 == drawNextSlide(m2)
         IN  Apply(resumeSlideShow(m3))
    /\ phase' = "started"
    /\ last' = [Dispatched("start") EXCEPT !.from = BeforeFirst]
    /\ run' = NoRun
    /\ UNCHANGED <<timeoutCounter, numImages, imagesReady, alerts, call, broken>>

\* the 600 ms timeout of handleImageLoad(): resizeCanvas, plain draw selected,
\* imageCounter = -1, setupControls, drawNextSlide, togglePlay, resumeSlideShow
startSlideshow ==
    /\ phase = "starting"
    /\ \E w \in Widths :
         LET m1 == resizeCanvas(St, FALSE, w, 0)
             m2 == [m1 EXCEPT !.drawingFunction = "None", !.imageCounter = BeforeFirst,
                              !.ctl = [b \in Buttons |-> ControlElement]]
             m3 == drawNextSlide(m2)
             m4 == [m3 EXCEPT !.ctl = togglePlay(m3.ctl)]
         IN  Apply(resumeSlideShow(m4))
    /\ phase' = "started"
    /\ last' = [Dispatched("start") EXCEPT !.from = BeforeFirst]
    /\ run' = NoRun
    /\ UNCHANGED <<timeoutCounter, numImages, imagesReady, alerts, call, broken>>

(***************************************************************************)
(* Control callbacks, on the machine state m                               *)
(***************************************************************************)
playCallback(m) ==
    LET m1 == [m EXCEPT !.ctl = togglePlay(m.ctl)]
    IN  IF ~isPlaying(m1.ctl) THEN clearHeld(m1) ELSE resumeSlideShow(m1)

directionCallback(m) ==
    resumeSlideShow([m EXCEPT !.ctl = toggleDirection(m.ctl)])

randomCallback(m) ==
    LET randomState == toggleRandomResult(m.ctl)
        m1 == [m EXCEPT !.ctl = toggleRandom(m.ctl)]
    IN  setInterval(clearHeld(m1), Callback("random", 0, FALSE, 0, randomState))

\* nextCallback() without the togglePlay() that marks the slideshow paused
nextCallbackKeepsPlaying(m) ==
    IF ~isRandom(m.ctl) THEN drawNextSlide(clearHeld(m)) ELSE m

nextCallback(m) ==
    IF ~isRandom(m.ctl)
    THEN LET m1 == clearHeld(m)
             m2 == IF isPlaying(m1.ctl) THEN [m1 EXCEPT !.ctl = togglePlay(m1.ctl)] ELSE m1
         IN  drawNextSlide(m2)
    ELSE m

previousCallback(m) ==
    IF ~isRandom(m.ctl)
    THEN LET m1 == clearHeld(m)
             m2 == IF isPlaying(m1.ctl) THEN [m1 EXCEPT !.ctl = togglePlay(m1.ctl)] ELSE m1
         IN  drawPreviousSlide(m2)
    ELSE m

\* the ArrowRight handler guarded on isRandom() as nextCallback() is
keyArrowRightSequentialOnly(m) ==
    IF ~isRandom(m.ctl)
    THEN LET m1 == clearHeld(m)
             m2 == IF isPlaying(m1.ctl) THEN [m1 EXCEPT !.ctl = togglePlay(m1.ctl)] ELSE m1
         IN  drawNextSlide(m2)
    ELSE m

\* keydown, ev.key === "ArrowRight"
keyArrowRight(m) ==
    LET m1 == clearHeld(m)
        m2 == IF isPlaying(m1.ctl) THEN [m1 EXCEPT !.ctl = togglePlay(m1.ctl)] ELSE m1
    IN  drawNextSlide(m2)

\* keydown, ev.key === "ArrowLeft"
keyArrowLeft(m) ==
    LET m1 == clearHeld(m)
        m2 == IF isPlaying(m1.ctl) THEN [m1 EXCEPT !.ctl = togglePlay(m1.ctl)] ELSE m1
    IN  drawPreviousSlide(m2)

\* the forward swipe without the togglePlay() that marks the slideshow paused
swipeForwardKeepsPlaying(m) == drawNextSlide(clearHeld(m))

\* touchend, difference >= precision
swipeForward(m) ==
    LET m1 == clearHeld(m)
        m2 == IF isPlaying(m1.ctl) THEN [m1 EXCEPT !.ctl = togglePlay(m1.ctl)] ELSE m1
    IN  drawNextSlide(m2)

\* touchend, difference <= -precision
swipeBackward(m) ==
    LET m1 == clearHeld(m)
        m2 == IF isPlaying(m1.ctl) THEN [m1 EXCEPT !.ctl = togglePlay(m1.ctl)] ELSE m1
    IN  drawPreviousSlide(m2)

\* effectCallback(captionElem, option): the options of the selector
\* effectCallback() restarting autoplay, as its header comment describes for "None"
effectCallbackResumes(m, option) ==
    resumeSlideShow([m EXCEPT !.drawingFunction = option])

effectCallback(m, option) == [m EXCEPT !.drawingFunction = option]

\* the fullscreenchange listener
fullscreenChange(m, w, h) ==
    LET m1 == IF isPlaying(m.ctl) THEN clearHeld(m) ELSE m
        m2 == [m1 EXCEPT !.ctl = toggleFullScreen(m1.ctl)]
    IN  viewChange(m2, w, h)

\* the 500 ms timeout of viewChange: drawSlide(.., this.imageCounter)
redrawCallback(m) ==
    [drawSlide(m, m.imageCounter) EXCEPT !.redraws = m.redraws - 1]

(***************************************************************************)
(* Actions: the user's events                                              *)
(***************************************************************************)
StartupVars == <<phase, timeoutCounter, numImages, imagesReady, alerts, broken>>

Started == phase = "started"

PlayClick ==
    /\ Started
    /\ Apply(playCallback(St))
    /\ last' = Ran("other")
    /\ run' = NoRun
    /\ UNCHANGED <<StartupVars, call>>

DirectionClick ==
    /\ Started
    /\ Apply(directionCallback(St))
    /\ last' = Ran("other")
    /\ run' = NoRun
    /\ UNCHANGED <<StartupVars, call>>

RandomClick ==
    /\ Started
    /\ Apply(randomCallback(St))
    /\ last' = Ran("other")
    /\ run' = NoRun
    /\ UNCHANGED <<StartupVars, call>>

NextClick ==
    /\ Started
    /\ Apply(nextCallback(St))
    /\ last' = Clicked("forward")
    /\ run' = IF ~isRandom(ctl) THEN ExtendRun ELSE NoRun
    /\ UNCHANGED <<StartupVars, call>>

PreviousClick ==
    /\ Started
    /\ Apply(previousCallback(St))
    /\ last' = Clicked("backward")
    /\ run' = NoRun
    /\ UNCHANGED <<StartupVars, call>>

KeyArrowRight ==
    /\ Started
    /\ Apply(keyArrowRight(St))
    /\ last' = Dispatched("forward")
    /\ run' = IF ~isRandom(ctl) THEN ExtendRun ELSE NoRun
    /\ UNCHANGED <<StartupVars, call>>

KeyArrowLeft ==
    /\ Started
    /\ Apply(keyArrowLeft(St))
    /\ last' = Dispatched("backward")
    /\ run' = NoRun
    /\ UNCHANGED <<StartupVars, call>>

SwipeForward ==
    /\ Started
    /\ Apply(swipeForward(St))
    /\ last' = Dispatched("forward")
    /\ run' = IF ~isRandom(ctl) THEN ExtendRun ELSE NoRun
    /\ UNCHANGED <<StartupVars, call>>

SwipeBackward ==
    /\ Started
    /\ Apply(swipeBackward(St))
    /\ last' = Dispatched("backward")
    /\ run' = NoRun
    /\ UNCHANGED <<StartupVars, call>>

EffectChange ==
    /\ Started
    /\ \E option \in Effects : Apply(effectCallback(St, option))
    /\ last' = Ran("other")
    /\ run' = NoRun
    /\ UNCHANGED <<StartupVars, call>>

FullscreenChange ==
    /\ Started
    /\ redraws < MaxRedraws
    /\ \E v \in Viewports : Apply(fullscreenChange(St, v[1], v[2]))
    /\ last' = Ran("other")
    /\ run' = NoRun
    /\ UNCHANGED <<StartupVars, call>>

\* resize and orientationchange share the viewChange handler
WindowResize ==
    /\ Started
    /\ redraws < MaxRedraws
    /\ \E v \in Viewports : Apply(viewChange(St, v[1], v[2]))
    /\ last' = Ran("other")
    /\ run' = NoRun
    /\ UNCHANGED <<StartupVars, call>>

(***************************************************************************)
(* Actions: timers firing                                                  *)
(***************************************************************************)
AutoplayTick ==
    /\ \E t \in timers, r \in RandomCounters(numImages) :
         /\ t.kind = "autoplay"
         /\ Apply(autoplayCallback(St, r))
         /\ last' = Dispatched("autoplay")
    /\ run' = NoRun
    /\ UNCHANGED <<StartupVars, call>>

RandomTimerTick ==
    /\ \E t \in timers, r \in RandomCounters(numImages) :
         /\ t.kind = "random"
         /\ Apply(randomTimerCallback(St, t, r))
         /\ last' = IF t.randomState THEN Dispatched("randomTimer") ELSE Ran("randomTimer")
    /\ run' = NoRun
    /\ UNCHANGED <<StartupVars, call>>

FadeOutTick ==
    /\ \E t \in timers :
         /\ t.kind = "fadeOut"
         /\ Apply(IF globalAlpha >= AlphaFloor
                  THEN fadeOutBurst(fadeOutCallback(St, t), t, FadeBurst - 1)
                  ELSE fadeOutCallback(St, t))
         /\ last' = Ran("other")
    /\ run' = NoRun
    /\ UNCHANGED <<StartupVars, call>>

FadeInTick ==
    /\ \E t \in timers :
         /\ t.kind = "fadeIn"
         /\ Apply(IF globalAlpha < AlphaOne
                  THEN fadeInBurst(fadeInCallback(St, t), t, FadeBurst - 1)
                  ELSE fadeInCallback(St, t))
         /\ last' = IF globalAlpha < AlphaOne THEN Ran("other") ELSE Ran("fadeDone")
    /\ run' = NoRun
    /\ UNCHANGED <<StartupVars, call>>

HorizontalTick ==
    /\ \E t \in timers :
         /\ t.kind = "horizontal"
         /\ t.ticks < MaxTicks
         /\ Apply(horizontalCallback(St, t))
         /\ last' = IF frame'.done THEN Ran("slideDone") ELSE Ran("other")
    /\ run' = NoRun
    /\ UNCHANGED <<StartupVars, call>>

VerticalTick ==
    /\ \E t \in timers :
         /\ t.kind = "vertical"
         /\ t.ticks < MaxTicks
         /\ Apply(verticalCallback(St, t))
         /\ last' = IF frame'.done THEN Ran("slideDone") ELSE Ran("other")
    /\ run' = NoRun
    /\ UNCHANGED <<StartupVars, call>>

RedrawTimeout ==
    /\ redraws > 0
    /\ Apply(redrawCallback(St))
    /\ last' = Ran("other")
    /\ run' = NoRun
    /\ UNCHANGED <<StartupVars, call>>

\* start-up, the controls and the timers
PlaybackNext ==
    \/ imagesComplete
    \/ handleImageLoadReady
    \/ handleImageLoadRetry
    \/ handleImageLoadFail
    \/ startSlideshow
    \/ PlayClick
    \/ DirectionClick
    \/ RandomClick
    \/ NextClick
    \/ PreviousClick
    \/ KeyArrowRight
    \/ KeyArrowLeft
    \/ SwipeForward
    \/ SwipeBackward
    \/ EffectChange
    \/ AutoplayTick
    \/ RandomTimerTick
    \/ FadeOutTick
    \/ FadeInTick
    \/ HorizontalTick
    \/ VerticalTick

\* the same with the view changes (resize, orientation change, full screen)
Next ==
    \/ PlaybackNext
    \/ FullscreenChange
    \/ WindowResize
    \/ RedrawTimeout

\* the complete machine, on small manifests
Spec == Init /\ [][Next]_vars

\* the machine without view changes, on manifests of up to MaxImages images
PlaybackSpec == PlaybackInit /\ [][PlaybackNext]_vars

(***************************************************************************)
(* The fade transition tick by tick: every fire of its two callbacks is a  *)
(* step of its own, so that any other handler can run between two of them. *)
(***************************************************************************)
\* one fire of the outer callback of fadeTransition()
FadeOutStep ==
    /\ \E t \in timers :
         /\ t.kind = "fadeOut"
         /\ Apply(fadeOutCallback(St, t))
         /\ last' = Ran("other")
    /\ run' = NoRun
    /\ UNCHANGED <<StartupVars, call>>

\* one fire of the inner callback of fadeTransition()
FadeInStep ==
    /\ \E t \in timers :
         /\ t.kind = "fadeIn"
         /\ Apply(fadeInCallback(St, t))
         /\ last' = IF globalAlpha < AlphaOne THEN Ran("other") ELSE Ran("fadeDone")
    /\ run' = NoRun
    /\ UNCHANGED <<StartupVars, call>>

\* play / pause, the effect selector, the arrow keys, autoplay, the fade and the
\* view changes
FadeNext ==
    \/ imagesComplete
    \/ handleImageLoadReady
    \/ handleImageLoadRetry
    \/ handleImageLoadFail
    \/ startSlideshow
    \/ PlayClick
    \/ KeyArrowRight
    \/ KeyArrowLeft
    \/ EffectChange
    \/ AutoplayTick
    \/ FadeOutStep
    \/ FadeInStep
    \/ HorizontalTick
    \/ VerticalTick
    \/ WindowResize
    \/ RedrawTimeout

FadeSpec == Init /\ [][FadeNext]_vars

\* autoplay with the play button and the effect selector as the only controls in
\* use
FadeLiveNext ==
    \/ imagesComplete
    \/ handleImageLoadReady
    \/ handleImageLoadRetry
    \/ handleImageLoadFail
    \/ startSlideshow
    \/ PlayClick
    \/ EffectChange
    \/ AutoplayTick
    \/ FadeOutStep
    \/ FadeInStep
    \/ HorizontalTick
    \/ VerticalTick

\* a live interval timer keeps firing: setInterval() calls its callback again
\* and again until clearInterval() removes it
FadeLiveSpec ==
    /\ Init /\ [][FadeLiveNext]_vars
    /\ WF_vars(FadeOutStep) /\ WF_vars(FadeInStep)
    /\ WF_vars(HorizontalTick) /\ WF_vars(VerticalTick)

(***************************************************************************)
(* The playback machine on a manifest of which up to MaxBroken images have *)
(* failed to load.  An image whose load failed reports complete, so the    *)
(* slideshow starts with it in the store, and drawImage() throws on it.    *)
(***************************************************************************)
BrokenSets(len) == {b \in SUBSET (0..(len - 1)) : Cardinality(b) <= MaxBroken}

FaultInit ==
    /\ numImages \in SmallManifests
    /\ broken \in BrokenSets(numImages)
    /\ InitFields

FaultSpec == FaultInit /\ [][PlaybackNext]_vars

(***************************************************************************)
(* The ControlsManager taken alone: its four toggles, called in any order  *)
(* once start-up has built the controls and called togglePlay().  Every    *)
(* handler calls at most one of them and can run at any time, so these are *)
(* the call sequences of the program.                                      *)
(***************************************************************************)
MachineVars ==
    <<imageCounter, interval, timers, redraws, drawingFunction, globalAlpha,
      globalImageWidth, globalImageHeight, last, run, frame>>

TogglePlayCall ==
    /\ Started
    /\ ctl' = togglePlay(ctl)
    /\ call' = Called("togglePlay", JsBool(togglePlayResult(ctl)))
    /\ UNCHANGED <<StartupVars, MachineVars>>

ToggleDirectionCall ==
    /\ Started
    /\ ctl' = toggleDirection(ctl)
    /\ call' = Called("toggleDirection", JsBool(toggleDirectionResult(ctl)))
    /\ UNCHANGED <<StartupVars, MachineVars>>

ToggleRandomCall ==
    /\ Started
    /\ ctl' = toggleRandom(ctl)
    /\ call' = Called("toggleRandom", JsBool(toggleRandomResult(ctl)))
    /\ UNCHANGED <<StartupVars, MachineVars>>

ToggleFullScreenCall ==
    /\ Started
    /\ ctl' = toggleFullScreen(ctl)
    /\ call' = Called("toggleFullScreen", toggleFullScreenResult(ctl))
    /\ UNCHANGED <<StartupVars, MachineVars>>

ControlNext ==
    \/ imagesComplete
    \/ handleImageLoadReady
    \/ handleImageLoadRetry
    \/ handleImageLoadFail
    \/ startSlideshow
    \/ TogglePlayCall
    \/ ToggleDirectionCall
    \/ ToggleRandomCall
    \/ ToggleFullScreenCall

ControlSpec == Init /\ [][ControlNext]_vars

(***************************************************************************)
(* Vocabulary of the properties                                            *)
(***************************************************************************)
playing == isPlaying(ctl)

TransitionKinds == {"fadeOut", "fadeIn", "horizontal", "vertical"}

\* an animated transition is in progress
InTransition == \E t \in timers : t.kind \in TransitionKinds

\* the timers the held handle names
HeldTimers == {t \in timers : t.id = interval}

\* the target of the dispatch that just happened, as the state shows it: the plain
\* draw has made it the current index, an animated strategy has captured it in
\* the closure of its timer
TargetShown ==
    IF drawingFunction = "None"
    THEN {imageCounter}
    ELSE {t.nextCounter : t \in {u \in timers : u.kind \in TransitionKinds}}

ManualOps == {"forward", "backward"}

\* the wraparound rule of section 4.2
WrapForward(i) == (i + 1) % numImages
WrapBackward(i) == (i - 1 + numImages) % numImages

\* the wraparound target of the manual advance that just ran
ManualTarget ==
    IF last.op = "forward" THEN WrapForward(last.from) ELSE WrapBackward(last.from)

(***************************************************************************)
(* C1: at most one scheduled timer is live at any instant, every place     *)
(* that installs a timer first cancels the held handle, and the held       *)
(* handle is the one of the live timer.                                    *)
(***************************************************************************)
\* C1 as claimed: counting every scheduled callback, the view-change redraw
\* timeouts included, there is at most one and it is the held one
C1_AtMostOneTimer ==
    /\ Cardinality(timers) + redraws <= 1
    /\ timers = HeldTimers

\* C1 as amended: at most one interval timer (autoplay, random mode or animation)
\* is live, and it is the one the held handle names; redraw timeouts of the
\* view-change handler may be pending beside it
C1_AtMostOneIntervalTimer ==
    /\ Cardinality(timers) <= 1
    /\ timers = HeldTimers

\* a fade-in is running on the held timer while a redraw timeout is pending
C1_Witness ==
    /\ redraws > 0
    /\ \E t \in timers : t.kind = "fadeIn" /\ t.id = interval

(***************************************************************************)
(* C2: whenever playing is false and no transition is in progress, no      *)
(* timer is live; pressing direction or random while paused installs none. *)
(***************************************************************************)
C2_PausedIsIdle ==
    (Started /\ ~playing /\ ~InTransition) => timers = {}

(***************************************************************************)
(* C3: after start-up, whenever playing is true exactly one timer (the     *)
(* autoplay timer or an animation timer) is live, so autoplay cannot stall *)
(* with no timer armed.                                                    *)
(***************************************************************************)
C3_PlayingHasTimer ==
    (Started /\ playing) => (Cardinality(timers) = 1 /\ timers = HeldTimers)

\* playing, full screen just entered: the timer was cleared and re-armed
C3_Witness ==
    /\ Started /\ playing
    /\ isFullScreen(ctl) /\ redraws > 0
    /\ \E t \in timers : t.kind = "autoplay"

(***************************************************************************)
(* C4: a forward advance from length-1 targets 0, from any other index i   *)
(* targets i+1; a backward advance from 0 targets length-1, from any other *)
(* index i targets i-1.                                                    *)
(***************************************************************************)
C4_Wraparound ==
    /\ (last.op = "forward" /\ last.dispatched) =>
          TargetShown = {IF last.from = numImages - 1 THEN 0 ELSE last.from + 1}
    /\ (last.op = "backward" /\ last.dispatched) =>
          TargetShown = {IF last.from = 0 THEN numImages - 1 ELSE last.from - 1}

\* a backward advance from index 0 of three images has targeted index 2
C4_Witness ==
    /\ last.op = "backward" /\ last.dispatched
    /\ numImages = 3 /\ last.from = 0 /\ TargetShown = {2}

(***************************************************************************)
(* C5: once the first slide is drawn, 0 <= imageCounter < length always,   *)
(* and every target handed to a drawing strategy is in [0, length).        *)
(***************************************************************************)
C5_IndexInRange ==
    Started =>
        /\ imageCounter \in 0..(numImages - 1)
        /\ \A t \in timers :
              t.kind \in TransitionKinds => t.nextCounter \in 0..(numImages - 1)

\* the random-mode timer has dispatched the last index to a slide transition
C5_Witness ==
    /\ Started /\ numImages = 3
    /\ last.op = "randomTimer"
    /\ \E t \in timers : t.kind = "horizontal" /\ t.nextCounter = 2

(***************************************************************************)
(* C6: a fire of the autoplay timer dispatches a random index when random  *)
(* is active, else (i - 1 + length) mod length when reversed is active,    *)
(* else (i + 1) mod length, with the flags as they are when it fires.      *)
(***************************************************************************)
C6_AutoplayTarget ==
    last.op = "autoplay" =>
        IF isRandom(ctl)
        THEN \E r \in 0..(numImages - 1) : TargetShown = {r}
        ELSE IF isReversed(ctl)
             THEN TargetShown = {WrapBackward(last.from)}
             ELSE TargetShown = {WrapForward(last.from)}

\* reversed autoplay has wrapped from index 0 to the last of three images
C6_Witness ==
    /\ last.op = "autoplay" /\ isReversed(ctl) /\ ~isRandom(ctl)
    /\ numImages = 3 /\ last.from = 0 /\ TargetShown = {2}

(***************************************************************************)
(* C7: with the plain draw selected and random inactive, n consecutive     *)
(* manual next() calls from index i leave imageCounter = (i + n) mod L,    *)
(* playing false and no timer live.                                        *)
(***************************************************************************)
C7_NextRun ==
    run.n > 0 =>
        /\ imageCounter = (run.from + run.n) % numImages
        /\ ~playing
        /\ timers = {}

\* three images, index 0, next twice: index 2
C7_Witness ==
    numImages = 3 /\ run.from = 0 /\ run.n = 2 /\ imageCounter = 2

(***************************************************************************)
(* C8: a manual advance renders its target with the plain draw whatever    *)
(* effect is selected: on return imageCounter is the target and no timer   *)
(* is live.                                                                *)
(***************************************************************************)
\* C8 as claimed
C8_ManualIsPlainDraw ==
    (last.op \in ManualOps /\ last.dispatched) =>
        (imageCounter = ManualTarget /\ timers = {})

\* C8 as amended: a manual advance hands its target to the selected drawing
\* function: the plain draw shows it within the call and leaves no timer; fade
\* and the slides start their animation, whose timer is then the one live timer,
\* and imageCounter is still the old index on return
C8_ManualUsesSelectedEffect ==
    (last.op \in ManualOps /\ last.dispatched) =>
        /\ drawingFunction = "None" => (imageCounter = ManualTarget /\ timers = {})
        /\ drawingFunction # "None" =>
              /\ imageCounter = last.from
              /\ Cardinality(timers) = 1
              /\ \A t \in timers :
                    /\ t.id = interval
                    /\ t.nextCounter = ManualTarget
                    /\ t.offset = 0
                    /\ t.kind = CASE drawingFunction = "fade" -> "fadeOut"
                                  [] drawingFunction = "slide-across" -> "horizontal"
                                  [] drawingFunction = "slide-vertically" -> "vertical"

\* a manual advance with fade selected has started a fade towards another image
C8_Witness ==
    /\ last.op \in ManualOps /\ last.dispatched
    /\ drawingFunction = "fade"
    /\ \E t \in timers : t.kind = "fadeOut" /\ t.nextCounter # imageCounter

(***************************************************************************)
(* C9: a manual advance cancels the timer, forces playing to false and     *)
(* computes its target by the wraparound rule ignoring random: with random *)
(* active a manual next still goes to (i + 1) mod length and pauses.       *)
(***************************************************************************)
\* C9 as claimed: every manual advance dispatches the wraparound target and pauses
C9_ManualIgnoresRandom ==
    last.op \in ManualOps =>
        /\ last.dispatched
        /\ TargetShown = {ManualTarget}
        /\ ~playing

\* C9 as amended: an arrow key or a swipe, and a next / previous click while
\* random is inactive, cancel the held timer, leave playing false (and with it
\* random inactive) and dispatch the wraparound target; a next / previous click
\* while random is active dispatches nothing and leaves playback running in
\* random mode with its timer
C9_ManualAdvance ==
    /\ (last.op \in ManualOps /\ last.dispatched) =>
          /\ TargetShown = {ManualTarget}
          /\ ~playing /\ ~isRandom(ctl)
          /\ drawingFunction = "None" => timers = {}
    /\ (last.op \in ManualOps /\ ~last.dispatched) =>
          /\ last.wasRandom /\ isRandom(ctl)
          /\ playing
          /\ Cardinality(timers) = 1

\* an arrow key or swipe forward while random was active: index 2 to index 0
C9_Witness ==
    /\ last.op = "forward" /\ last.dispatched /\ last.wasRandom
    /\ numImages = 3 /\ last.from = 2 /\ TargetShown = {0}

(***************************************************************************)
(* C10: when a fade or slide reaches its stopping condition its timer is   *)
(* cancelled; if playing is true then, the autoplay timer is re-armed, and *)
(* if playing is false no timer is live afterwards.                        *)
(***************************************************************************)
C10_Completion ==
    last.op \in {"fadeDone", "slideDone"} =>
        IF playing
        THEN /\ Cardinality(timers) = 1
             /\ \A t \in timers : t.kind = "autoplay" /\ t.id = interval
        ELSE timers = {}

\* a fade started by a manual advance has completed while paused
C10_Witness ==
    last.op = "fadeDone" /\ ~playing /\ globalAlpha = AlphaOne

(***************************************************************************)
(* Vocabulary of the control-state properties                              *)
(***************************************************************************)
\* the controls toggleRandom() switches together with random
Navigation == {"previous", "next", "direction"}

NavigationAllEnabled(c) == \A b \in Navigation : c[b].isEnabled
NavigationAllDisabled(c) == \A b \in Navigation : ~c[b].isEnabled

\* the controls before the first of two consecutive togglePlay() calls
TwoTogglePlays == call.op = "togglePlay" /\ call.pair # <<>>
Original == call.pair[1]

(***************************************************************************)
(* C12: from every reachable control state, togglePlay() twice in a row    *)
(* returns playing and the enabled flags of the random and direction       *)
(* controls to their original values.                                      *)
(***************************************************************************)
\* C12 as claimed
C12_TogglePlayTwiceRestores ==
    TwoTogglePlays =>
        /\ isPlaying(ctl) = isPlaying(Original)
        /\ ctl["random"].isEnabled = Original["random"].isEnabled
        /\ ctl["direction"].isEnabled = Original["direction"].isEnabled

\* C12 as amended: two togglePlay() calls in a row restore playing and leave
\* random and direction inactive and enabled exactly when playing; this restores
\* the enabled flag of random always, and the one of direction only where it
\* agreed with playing before the two calls
C12_TogglePlayTwice ==
    TwoTogglePlays =>
        /\ isPlaying(ctl) = isPlaying(Original)
        /\ ctl["random"].isEnabled = isPlaying(ctl)
        /\ ctl["direction"].isEnabled = isPlaying(ctl)
        /\ ~isRandom(ctl) /\ ~isReversed(ctl)
        /\ ctl["random"].isEnabled = Original["random"].isEnabled
        /\ (ctl["direction"].isEnabled = Original["direction"].isEnabled)
              <=> (Original["direction"].isEnabled = isPlaying(Original))

\* pause and play again out of random mode: direction, disabled before, is enabled
C12_Witness ==
    /\ TwoTogglePlays
    /\ isRandom(Original) /\ ~Original["direction"].isEnabled
    /\ isPlaying(ctl) /\ ctl["direction"].isEnabled

(***************************************************************************)
(* C13: after any sequence of toggles, a toggleRandom() that makes random  *)
(* active leaves previous, next and direction all disabled, and one that   *)
(* makes it inactive leaves them all enabled.                              *)
(***************************************************************************)
C13_RandomSwitchesNavigation ==
    call.op = "toggleRandom" =>
        /\ (~isRandom(call.before) /\ isRandom(ctl)) => NavigationAllDisabled(ctl)
        /\ (isRandom(call.before) /\ ~isRandom(ctl)) => NavigationAllEnabled(ctl)

(***************************************************************************)
(* C14: in every reachable control state the random and the direction      *)
(* control are enabled only if playing is true.                            *)
(***************************************************************************)
C14_EnabledOnlyWhilePlaying ==
    (Started /\ ~playing) =>
        (~ctl["random"].isEnabled /\ ~ctl["direction"].isEnabled)

(***************************************************************************)
(* C15: in every reachable control state, random active implies previous,  *)
(* next and direction all disabled, and random inactive while playing      *)
(* implies them all enabled, also across pause / resume cycles.            *)
(***************************************************************************)
C15_RandomExcludesNavigation ==
    Started =>
        /\ isRandom(ctl) => NavigationAllDisabled(ctl)
        /\ (~isRandom(ctl) /\ playing) => NavigationAllEnabled(ctl)

(***************************************************************************)
(* C16: toggleRandom() while random is disabled, and toggleDirection()     *)
(* while direction is disabled, leave the state and the enabled flag of    *)
(* every control unchanged.                                                *)
(***************************************************************************)
C16_DisabledToggleIsNoOp ==
    /\ (call.op = "toggleRandom" /\ ~call.before["random"].isEnabled) =>
          ctl = call.before
    /\ (call.op = "toggleDirection" /\ ~call.before["direction"].isEnabled) =>
          ctl = call.before

(***************************************************************************)
(* C17: togglePlay() flips playing and returns the new value; when it      *)
(* returns true random and direction are both enabled afterwards, when it  *)
(* returns false both are disabled and inactive.                           *)
(***************************************************************************)
C17_TogglePlay ==
    call.op = "togglePlay" =>
        /\ isPlaying(ctl) = ~isPlaying(call.before)
        /\ call.result = JsBool(isPlaying(ctl))
        /\ call.result = "true" =>
              (ctl["random"].isEnabled /\ ctl["direction"].isEnabled)
        /\ call.result = "false" =>
              /\ ~ctl["random"].isEnabled /\ ~ctl["direction"].isEnabled
              /\ ~isRandom(ctl) /\ ~isReversed(ctl)

\* pausing while reversed: direction is disabled and no longer reversed
C17_Witness ==
    /\ call.op = "togglePlay" /\ call.result = "false"
    /\ isReversed(call.before)
    /\ ~ctl["direction"].isEnabled /\ ~isReversed(ctl)

(***************************************************************************)
(* C18: toggleDirection() flips reversed and returns the new value when    *)
(* direction is enabled, returns the unchanged value and leaves reversed   *)
(* alone when it is disabled, and changes nothing else in either case.     *)
(***************************************************************************)
C18_ToggleDirection ==
    call.op = "toggleDirection" =>
        /\ isReversed(ctl) = IF call.before["direction"].isEnabled
                             THEN ~isReversed(call.before)
                             ELSE isReversed(call.before)
        /\ call.result = JsBool(isReversed(ctl))
        /\ ctl["direction"].isEnabled = call.before["direction"].isEnabled
        /\ \A b \in Buttons \ {"direction"} : ctl[b] = call.before[b]

\* toggleDirection() on the disabled direction control, in random mode
C18_Witness ==
    /\ call.op = "toggleDirection"
    /\ ~call.before["direction"].isEnabled /\ isRandom(call.before)
    /\ call.result = "false" /\ ctl = call.before

(***************************************************************************)
(* C19: toggleFullScreen() flips the fullscreen flag, leaves playing,      *)
(* reversed, random and every enabled flag unchanged, and returns the new  *)
(* fullscreen state.                                                       *)
(***************************************************************************)
\* C19 as claimed
C19_ToggleFullScreenReturnsState ==
    call.op = "toggleFullScreen" =>
        /\ isFullScreen(ctl) = ~isFullScreen(call.before)
        /\ ctl["fullScreen"].isEnabled = call.before["fullScreen"].isEnabled
        /\ \A b \in Buttons \ {"fullScreen"} : ctl[b] = call.before[b]
        /\ call.result = JsBool(isFullScreen(ctl))

\* C19 as amended: the flag flips and nothing else changes, but the call
\* returns no value
C19_ToggleFullScreen ==
    call.op = "toggleFullScreen" =>
        /\ isFullScreen(ctl) = ~isFullScreen(call.before)
        /\ ctl["fullScreen"].isEnabled = call.before["fullScreen"].isEnabled
        /\ \A b \in Buttons \ {"fullScreen"} : ctl[b] = call.before[b]
        /\ call.result = "undefined"

\* full screen entered while playing in random mode
C19_Witness ==
    /\ call.op = "toggleFullScreen"
    /\ isFullScreen(ctl) /\ ~isFullScreen(call.before)
    /\ isPlaying(ctl) /\ isRandom(ctl)

(***************************************************************************)
(* C11: selecting an effect changes only the active drawing strategy: it   *)
(* leaves imageCounter, the timer handle, every control and any in-flight  *)
(* animation (routine, target, progress) unchanged, and the next dispatch  *)
(* uses the newly selected strategy.                                       *)
(***************************************************************************)
\* the strategy the dispatch that just happened has used
StrategyUsed ==
    IF \E t \in timers : t.kind \in {"fadeOut", "fadeIn"} THEN "fade"
    ELSE IF \E t \in timers : t.kind = "horizontal" THEN "slide-across"
    ELSE IF \E t \in timers : t.kind = "vertical" THEN "slide-vertically"
    ELSE "None"

FadeOutGoesOn == \E t \in timers : t.kind = "fadeOut" /\ t \in timers'
FadeInGoesOn == \E t \in timers : t.kind = "fadeIn" /\ t \in timers'

C20_FadeMonotone ==
    /\ [][FadeOutGoesOn => globalAlpha' <= globalAlpha]_vars
    /\ [][FadeInGoesOn => globalAlpha' >= globalAlpha]_vars
    /\ [][FadeOutGoesOn => imageCounter' = imageCounter]_vars
    /\ [](\A t \in timers : t.kind = "fadeIn" => imageCounter = t.nextCounter)

(***************************************************************************)
(* C21: every fade transition that is dispatched eventually completes,     *)
(* given that timer ticks keep firing, from whatever opacity the surface   *)
(* had when it started and under any interleaving of control actions: it   *)
(* ends with imageCounter = target, opacity back at 1.0 and its animation  *)
(* timer cancelled.                                                        *)
(***************************************************************************)
FadeInFlight == \E t \in timers : t.kind \in {"fadeOut", "fadeIn"}

FadeTowards(k) == \E t \in timers : t.kind = "fadeOut" /\ t.nextCounter = k

FadeCompleted(k) == imageCounter = k /\ globalAlpha = AlphaOne /\ ~FadeInFlight

C21_FadeCompletes ==
    \A k \in 0..(MaxImages - 1) : FadeTowards(k) ~> FadeCompleted(k)

(***************************************************************************)
(* C22: the surface opacity stays within a visible range in every          *)
(* reachable state: it never reaches 0 (it never falls below the floor 0.1 *)
(* minus one fade step) and never exceeds 1.0, including when a fade is    *)
(* started while a previous fade was interrupted part-way.                 *)
(***************************************************************************)
C22_OpacityVisible ==
    /\ globalAlpha > 0
    /\ globalAlpha >= AlphaFloor - fadeStep
    /\ globalAlpha <= AlphaOne

\* a fade has just been dispatched while the opacity is below the floor, where an
\* interrupted fade has left it
C22_Witness ==
    /\ last.dispatched
    /\ \E t \in timers : t.kind = "fadeOut"
    /\ globalAlpha < AlphaFloor

(***************************************************************************)
(* C23: an uninterrupted slide transition (horizontal or vertical) with    *)
(* image extent E and step S terminates after exactly ceil((E + S) / S)    *)
(* animation ticks, for every positive extent, whether or not E is a       *)
(* multiple of S; at that tick the timer is cancelled and imageCounter     *)
(* becomes the target.                                                     *)
(***************************************************************************)
SlideKinds == {"horizontal", "vertical"}

\* ceil(a / b) for positive integers
CeilDiv(a, b) == (a + b - 1) \div b

SlideTicks(extent) == CeilDiv(extent + increment, increment)

C23_SlideTicks ==
    (frame.kind \in SlideKinds /\ ~frame.raised) =>
        /\ frame.extent > 0
        /\ frame.n <= SlideTicks(frame.extent)
        /\ frame.done <=> frame.n = SlideTicks(frame.extent)
        /\ frame.done =>
              /\ imageCounter = frame.target
              /\ \A t \in timers : t.kind \notin SlideKinds

\* a slide across has stopped on an extent that is not a multiple of the step
C23_Witness ==
    /\ frame.kind = "horizontal" /\ frame.done
    /\ frame.extent % increment # 0
    /\ frame.n = SlideTicks(frame.extent)

(***************************************************************************)
(* C24: in both slide effects, when forward is true the outgoing image's   *)
(* rendered origin along the slide axis (x for horizontal, y for vertical) *)
(* is strictly decreasing from tick to tick, and when forward is false it  *)
(* is strictly increasing.                                                 *)
(***************************************************************************)
\* this step is a redraw of the slide whose previous redraw was the step before
\* it; that one ran to its end, and both have drawn the outgoing image.  The
\* origins are relative to the transform in force when each redraw began.
NextFrameOfSlide ==
    /\ frame.kind \in SlideKinds /\ frame'.kind = frame.kind
    /\ frame'.n = frame.n + 1
    /\ ~frame.raised
    /\ frame.outgoing # <<>> /\ frame'.outgoing # <<>>

C25_IncomingAtOrigin ==
    (frame.kind \in SlideKinds /\ frame.done) => frame.incoming = <<0>>

(***************************************************************************)
(* C26: a drawing fault (drawing an image raises an error) in one frame of *)
(* any drawing strategy (plain draw, fade, horizontal slide, vertical      *)
(* slide) is contained within that frame: the tick still finishes its      *)
(* bookkeeping, the transition still advances and reaches its stopping     *)
(* condition, and playback does not stall.                                 *)
(***************************************************************************)
\* no exception leaves a handler, and after every redraw of a slide that has not
\* stopped it, the offset of its timer counts the redraws made
C26_FaultContained ==
    /\ ~frame.raised
    /\ (frame.kind \in SlideKinds /\ ~frame.done) =>
          \A t \in timers : t.kind = frame.kind => t.offset = frame.n * increment

(***************************************************************************)
(* C27: if the images never become ready, the startup readiness poll       *)
(* terminates: starting from counter c it re-checks every 500 ms, and once *)
(* the counter reaches the ceiling (90000 ms) it stops polling, surfaces   *)
(* the failure notice exactly once, and the slideshow never starts (no     *)
(* controls set up, playing never true, no autoplay timer ever installed). *)
(***************************************************************************)
\* every step: it does not start in the failed state (nothing runs any more: no
\* poll, no start); a poll that finds the images not ready below the ceiling adds
\* 500 to the counter; one that finds them not ready at the ceiling fails, with
\* one notice and the slideshow untouched
C27_LoadTimeout ==
    [][/\ phase # "failed"
       /\ (phase = "loading" /\ ~imagesReady /\ ~imagesReady') =>
              IF timeoutCounter < loadTimeout
              THEN /\ phase' = "loading"
                   /\ timeoutCounter' = timeoutCounter + pollPeriod
                   /\ timeoutCounter' <= loadTimeout
                   /\ alerts' = 0
              ELSE /\ phase' = "failed"
                   /\ alerts = 0 /\ alerts' = 1
       /\ phase' = "failed" =>
              /\ ~imagesReady'
              /\ timers' = {} /\ interval' = 0 /\ redraws' = 0
              /\ ctl' = [b \in Buttons |-> ControlElement]
              /\ ~isPlaying(ctl')
              /\ imageCounter' = 0]_vars

\* the ceiling was reached with the images not ready: one notice, nothing started
C27_Witness ==
    /\ phase = "failed" /\ alerts = 1
    /\ timeoutCounter = loadTimeout
    /\ timers = {} /\ ~playing

(***************************************************************************)
(* C28: a random pick always yields a target in [0, length) for every      *)
(* store length >= 1 and may equal imageCounter; with exactly one image    *)
(* the target is always 0 and every effect (including the slide effects    *)
(* animating from an image to itself) completes without error.             *)
(***************************************************************************)
\* the handler that just ran has dispatched a random pick
RandomPick ==
    /\ last.dispatched
    /\ last.op = "randomTimer" \/ (last.op = "autoplay" /\ last.wasRandom)

C28_RandomPick ==
    /\ RandomPick =>
          \E r \in 0..(numImages - 1) : TargetShown = {r}
    /\ (Started /\ numImages = 1) =>
          /\ imageCounter = 0
          /\ \A t \in timers : t.kind \in TransitionKinds => t.nextCounter = 0
          /\ ~frame.raised /\ ~frame.logged
          /\ frame.kind \in SlideKinds =>
                /\ frame.outgoing # <<>> /\ frame.incoming # <<>>
                /\ frame.done <=> frame.n = SlideTicks(frame.extent)
          /\ last.op \in {"fadeDone", "slideDone"} =>
                \A t \in timers : t.kind \notin TransitionKinds

\* one image, random mode: a slide from the image to itself has run to its end
C28_Witness ==
    /\ numImages = 1 /\ isRandom(ctl)
    /\ last.op = "slideDone"
    /\ frame.done /\ frame.target = 0 /\ imageCounter = 0

(***************************************************************************)
(* C29: for every drawing strategy, imageCounter is not modified between   *)
(* the dispatch of a transition and its completion point: during all       *)
(* animation ticks before the tick on which the transition completes       *)
(* (timer cancelled, completion signalled), imageCounter still equals the  *)
(* pre-transition index.                                                   *)
(***************************************************************************)
\* this step leaves the transition in flight going: an animation timer is live
\* before and after it, and the step has dispatched no new transition
TransitionGoesOn == InTransition /\ InTransition' /\ ~last'.dispatched

\* this step is the phase switch of a fade: the fade-out timer is replaced by the
\* fade-in timer
FadePhaseSwitch ==
    /\ \E t \in timers : t.kind = "fadeOut"
    /\ \E t \in timers' : t.kind = "fadeIn"

\* C29 as claimed
C29_IndexFixedUntilCompletion ==
    [][TransitionGoesOn => imageCounter' = imageCounter]_vars

\* C29 as amended: a slide leaves imageCounter alone on every tick before its
\* stopping tick and sets it to the target on that tick.  A fade leaves it alone
\* through the fade-out, sets it to the target at the phase switch (the tick that
\* ends the fade-out and installs the fade-in timer, hence before the completion
\* point) and leaves it at the target through the fade-in and on the completing tick.
C29_IndexDuringTransition ==
    [][/\ TransitionGoesOn =>
              IF FadePhaseSwitch
              THEN \A t \in timers : imageCounter' = t.nextCounter
              ELSE imageCounter' = imageCounter
       /\ (InTransition /\ last'.op \in {"fadeDone", "slideDone"}) =>
              \A t \in timers : imageCounter' = t.nextCounter
       /\ last'.op = "fadeDone" => imageCounter' = imageCounter]_vars

\* two images: a fade-in is part-way, imageCounter is already the target
C29_Witness ==
    /\ numImages = 2
    /\ globalAlpha < AlphaOne
    /\ \E t \in timers : t.kind = "fadeIn" /\ imageCounter = t.nextCounter

(***************************************************************************)
(* C30: in both slide effects the direction of travel is fixed at dispatch *)
(* as forward = (target > imageCounter), whatever the reversed flag and    *)
(* whichever operation produced the target.  Hence a forward advance that  *)
(* wraps from length-1 to 0 is animated as backward, a backward advance    *)
(* that wraps from 0 to length-1 is animated as forward, and a target      *)
(* equal to imageCounter is animated as backward.                          *)
(***************************************************************************)
\* the slide closure t was installed by the handler that just ran
SlideDispatched(t) == last.dispatched /\ t \in timers /\ t.kind \in SlideKinds

Heading(f) == IF f.forward <=> f.kind = "horizontal" THEN -1 ELSE 1

C31_AbutNoDrift ==
    frame.kind \in SlideKinds =>
        /\ Len(frame.outgoing) = 1
        /\ Len(frame.incoming) = 1
        /\ frame.incoming[1] = frame.outgoing[1] - Heading(frame) * frame.extent
        /\ frame.origin = 0

(***************************************************************************)
(* C32: the plain draw of target t sets imageCounter = t within the same   *)
(* call and neither installs nor cancels any timer.  This also holds when  *)
(* rendering the image faults: the fault is logged, not raised,            *)
(* imageCounter is still t afterwards and a running autoplay timer keeps   *)
(* firing.                                                                 *)
(***************************************************************************)
\* this step is a handler that hands a target to the plain draw: a fire of the
\* autoplay or random-mode timer, or a manual advance
PlainDispatch ==
    /\ drawingFunction = "None"
    /\ last'.dispatched
    /\ last'.op \in {"autoplay", "randomTimer"} \cup ManualOps

\* the targets that handler can hand over, from the state it starts in
PlainTargets ==
    IF last'.op \in {"randomTimer"} \/ (last'.op = "autoplay" /\ isRandom(ctl))
    THEN 0..(numImages - 1)
    ELSE IF last'.op = "forward" \/ (last'.op = "autoplay" /\ ~isReversed(ctl))
    THEN {nextCounterForward(imageCounter, numImages)}
    ELSE {nextCounterBackward(imageCounter, numImages)}

C32_PlainDraw ==
    [][PlainDispatch =>
          /\ imageCounter' \in PlainTargets
          /\ timers' = IF last'.op \in ManualOps THEN timers \ HeldTimers ELSE timers
          /\ last'.op \notin ManualOps => interval' = interval
          /\ ~frame'.raised
          /\ frame'.logged <=> imageCounter' \in broken
          /\ last'.op = "autoplay" =>
                \E t \in timers' : t.kind = "autoplay" /\ t.id = interval']_vars

\* the autoplay timer has just handed a broken image to the plain draw: the
\* fault is logged, the image is the current one, the timer is live
C32_Witness ==
    /\ drawingFunction = "None"
    /\ last.dispatched /\ last.op = "autoplay"
    /\ imageCounter \in broken
    /\ frame.logged /\ ~frame.raised
    /\ \E t \in timers : t.kind = "autoplay" /\ t.id = interval

(***************************************************************************)
(* C33: when start-up succeeds (all images ready) the system reaches this  *)
(* state before any autoplay tick: imageCounter = 0 (the first draw has    *)
(* normalized the sentinel -1), the active effect is the plain draw,       *)
(* playing is true, random and reversed are inactive, random, direction,   *)
(* next and previous are enabled, and exactly one timer, the autoplay      *)
(* timer, is live.                                                         *)
(***************************************************************************)
\* the start-up block is the handler that just ran
JustStarted == Started /\ last.op = "start"

C33_StartState ==
    JustStarted =>
        /\ imagesReady
        /\ imageCounter = 0
        /\ drawingFunction = "None"
        /\ isPlaying(ctl) /\ ~isRandom(ctl) /\ ~isReversed(ctl)
        /\ \A b \in {"random", "direction", "next", "previous"} : ctl[b].isEnabled
        /\ Cardinality(timers) = 1
        /\ \A t \in timers : t.kind = "autoplay" /\ t.id = interval
        /\ redraws = 0
        /\ globalAlpha = AlphaOne
        /\ ~frame.raised

C33_Witness ==
    /\ JustStarted
    /\ numImages = 2
    /\ imageCounter = 0
    /\ \E t \in timers : t.kind = "autoplay"

(***************************************************************************)
(* C34: for every control element (play, direction, random, next,          *)
(* previous, fullScreen) and in every reachable state, a disabled control  *)
(* is never active: isEnabled = false implies state = false.  toggle() on  *)
(* a disabled element changes nothing, and toggleEnabled() on an enabled,  *)
(* active element makes it inactive before disabling it.                   *)
(***************************************************************************)
C34_DisabledInactive ==
    \A b \in Buttons :
        /\ ~ctl[b].isEnabled => ~ctl[b].state
        /\ ~ctl[b].isEnabled =>
              /\ toggle(ctl, b) = ctl
              /\ ~toggleResult(ctl, b)
        /\ (ctl[b].isEnabled /\ ctl[b].state) =>
              /\ ~toggleEnabled(ctl, b)[b].state
              /\ ~toggleEnabled(ctl, b)[b].isEnabled
              /\ \A o \in Buttons \ {b} : toggleEnabled(ctl, b)[o] = ctl[o]

\* random mode while playing: play and random are enabled and active, and
\* direction, next and previous are disabled and inactive
C34_Witness ==
    /\ Started
    /\ ctl["play"].isEnabled /\ isPlaying(ctl)
    /\ ctl["random"].isEnabled /\ isRandom(ctl)
    /\ \A b \in {"direction", "next", "previous"} :
          ~ctl[b].isEnabled /\ ~ctl[b].state

(***************************************************************************)
(* C35: whenever no fade transition is in flight (the system is idle,      *)
(* autoplaying, or running a slide or a plain draw) the surface opacity is *)
(* 1.0: no sequence of control actions that cancels a fade part-way leaves *)
(* later slides drawn at reduced opacity.                                  *)
(***************************************************************************)
C35_OpaqueOutsideFade ==
    (Started /\ ~FadeInFlight) => globalAlpha = AlphaOne

(***************************************************************************)
(* C36: the save / restore stack of the surface is balanced across         *)
(* transitions: after any slide transition completes, the number of save() *)
(* calls it made equals the number of its restore() calls, so the depth of *)
(* saved states does not grow with the number of transitions played.       *)
(***************************************************************************)
C36_SaveRestoreBalanced ==
    (frame.kind \in SlideKinds /\ frame.done) => frame.saves = frame.restores

(***************************************************************************)
(* C37: after the random button is toggled so that random becomes inactive *)
(* while playing, the first fire of the timer installed by that toggle     *)
(* dispatches a sequential slide (next or previous according to reversed), *)
(* just as a timer installed by resumeSlideShow() would; it does not       *)
(* merely re-arm the autoplay timer without showing a slide.               *)
(***************************************************************************)
\* this step is a fire of the timer that randomCallback() installed when its
\* toggle returned false, while playing
RandomOffFire ==
    /\ RandomTimerTick
    /\ isPlaying(ctl)
    /\ \E t \in timers : t.kind = "random" /\ ~t.randomState

\* the target of a sequential step from the current state
SequentialTarget ==
    IF isReversed(ctl) THEN nextCounterBackward(imageCounter, numImages)
    ELSE nextCounterForward(imageCounter, numImages)

\* C37 as claimed
C37_RandomOffFireDispatches ==
    [][RandomOffFire => (last'.dispatched /\ TargetShown' = {SequentialTarget})]_vars

\* C37 as amended: that fire shows no slide.  It calls resumeSlideShow(), which
\* cancels the timer and installs the autoplay timer; the first fire of the autoplay
\* timer, one more period later, dispatches the sequential slide.
C37_RandomOffFireRearms ==
    [][/\ RandomOffFire =>
            /\ ~isRandom(ctl)
            /\ ~last'.dispatched
            /\ imageCounter' = imageCounter
            /\ frame' = NoFrame
            /\ ctl' = ctl /\ drawingFunction' = drawingFunction
            /\ globalAlpha' = globalAlpha
            /\ Cardinality(timers') = 1
            /\ \A t \in timers' : t.kind = "autoplay" /\ t.id = interval'
       /\ (AutoplayTick /\ ~isRandom(ctl)) =>
            (last'.dispatched /\ TargetShown' = {SequentialTarget})]_vars

\* the timer of a toggle that left random mode has just fired, while playing:
\* the autoplay timer is installed and the image is the one shown before
C37_Witness ==
    /\ last.op = "randomTimer" /\ ~last.dispatched
    /\ isPlaying(ctl) /\ ~isRandom(ctl)
    /\ frame = NoFrame
    /\ \E t \in timers : t.kind = "autoplay" /\ t.id = interval

(***************************************************************************)
(* C38: the input paths for a manual advance are equivalent: from every    *)
(* reachable state the next button, the ArrowRight key and a forward swipe *)
(* produce the same resulting state (imageCounter, playing, control flags, *)
(* timer), and likewise the previous button, the ArrowLeft key and a       *)
(* backward swipe; in particular they agree when random is active.         *)
(***************************************************************************)
\* what the claim compares of the state a handler leaves
Outcome(m) == <<m.imageCounter, m.ctl, m.timers, m.interval>>

\* in the state m the held handle names the timer of a transition
InTransitionOf(m) ==
    \E t \in m.timers : t.id = m.interval /\ t.kind \in TransitionKinds

\* C38 as claimed
C38_PathsEquivalent ==
    Started =>
        /\ Outcome(nextCallback(St)) = Outcome(keyArrowRight(St))
        /\ Outcome(keyArrowRight(St)) = Outcome(swipeForward(St))
        /\ Outcome(previousCallback(St)) = Outcome(keyArrowLeft(St))
        /\ Outcome(keyArrowLeft(St)) = Outcome(swipeBackward(St))

\* C38 as amended: key and swipe always agree; the button agrees with them while
\* random is inactive; while random is active the button changes nothing, and
\* key and swipe pause playback, which leaves random mode
C38_PathsAgree ==
    Started =>
        /\ keyArrowRight(St) = swipeForward(St)
        /\ keyArrowLeft(St) = swipeBackward(St)
        /\ ~isRandom(ctl) =>
              /\ nextCallback(St) = keyArrowRight(St)
              /\ previousCallback(St) = keyArrowLeft(St)
        /\ isRandom(ctl) =>
              /\ nextCallback(St) = St
              /\ previousCallback(St) = St
              /\ \A m \in {keyArrowRight(St), keyArrowLeft(St)} :
                    /\ ~isPlaying(m.ctl) /\ ~isRandom(m.ctl)
                    /\ m.interval \notin LiveIds(m.timers) \/ InTransitionOf(m)

\* the next button has just been clicked in random mode and nothing happened;
\* a key or a swipe would pause and advance from here
C38_Witness ==
    /\ Started /\ numImages = 2
    /\ last.op = "forward" /\ ~last.dispatched /\ last.wasRandom
    /\ isRandom(ctl) /\ isPlaying(ctl)
    /\ \E t \in timers : t.kind \in {"autoplay", "random"}

====
